---- MODULE Spec2Model ----
(***************************************************************************)
(* Model of the diagnosis-and-remediation pipeline of the Airflow /        *)
(* Databricks MCP agent: the run-id extractor (tools.py), the log          *)
(* classifier (rca_engine.py), the policy guardrails (policy.py) and the   *)
(* two workflows generate_rca / rerun_failed_pipeline (tools.py).          *)
(*                                                                         *)
(* Text is modelled as a sequence of lexemes (tokens).  A regular          *)
(* expression is a sequence of elements: a literal lexeme, or a greedy     *)
(* repetition of a character class, matched by a backtracking matcher      *)
(* with Python's re.search semantics (leftmost start, greedy, first        *)
(* alternative that lets the rest of the pattern match).                   *)
(***************************************************************************)
EXTENDS Integers, Sequences, FiniteSets, TLC

VARIABLES
    max_reruns,      \* PolicyGuardrails.max_reruns
    allowlist_dags,  \* PolicyGuardrails.allowlist_dags (membership is all the code asks of it)
    pc,              \* where the operation in progress stands
    op,              \* the operation in progress and its arguments
    failed_tasks,    \* generate_rca: the decoded list of failed tasks
    idx,             \* the index of the task the current loop is at (0: before the loop)
    report,          \* generate_rca: the report under construction; rerun: rca_report
    ret,             \* the value the operation returned
    calls            \* the guard and collaborator calls the operation has made, in order

vars == <<max_reruns, allowlist_dags, pc, op, failed_tasks, idx, report, ret, calls>>

-----------------------------------------------------------------------------
(* Bounds of the model *)

MaxTextLen == 5   \* lexemes in a text given to _extract_run_id
MaxLogLen == 4    \* lexemes in a text given to RCAEngine.analyze
MaxNameFrags == 4 \* fragments in a tool name given to check_safety
MaxTasks == 2     \* failed tasks of a run
MaxRerunsCfg == 2 \* the largest MAX_RERUNS configured
MaxTry == 4       \* the largest attempt number asked of the policy

-----------------------------------------------------------------------------
(* Lexemes and case folding *)

\* Optional[int]
None == [some |-> FALSE, val |-> 0]
Some(n) == [some |-> TRUE, val |-> n]

\* str.lower() / re.IGNORECASE on one lexeme
Lower(t) ==
    CASE t = "RUN_ID" -> "run_id"
      [] t = "Run ID" -> "run id"
      [] t = "Submitted run" -> "submitted run"
      [] t = "Databricks Run Now Response" -> "databricks run now response"
      [] t = "AnalysisException:" -> "analysisexception:"
      [] t = "Schema variance detected" -> "schema variance detected"
      [] t = "java.lang.OutOfMemoryError" -> "java.lang.outofmemoryerror"
      [] t = "JAVA.LANG.OUTOFMEMORYERROR" -> "java.lang.outofmemoryerror"
      [] t = "Container killed by YARN for exceeding memory limits"
             -> "container killed by yarn for exceeding memory limits"
      [] t = "ExecutorLostFailure" -> "executorlostfailure"
      [] t = "Total size of serialized results" -> "total size of serialized results"
      [] t = "AccessDeniedException" -> "accessdeniedexception"
      [] t = "403 Forbidden" -> "403 forbidden"
      [] t = "Constraint violation" -> "constraint violation"
      [] t = "NullPointerException" -> "nullpointerexception"
      [] t = "TimeoutException" -> "timeoutexception"
      [] t = "Heartbeat missing" -> "heartbeat missing"
      [] OTHER -> t

Digits == {"0", "1", "2", "3", "4", "5", "6", "7", "8", "9"}

DigitVal(d) ==
    CASE d = "0" -> 0 [] d = "1" -> 1 [] d = "2" -> 2 [] d = "3" -> 3
      [] d = "4" -> 4 [] d = "5" -> 5 [] d = "6" -> 6 [] d = "7" -> 7
      [] d = "8" -> 8 [] d = "9" -> 9

\* int(match.group(1)) on a captured run of decimal digits
RECURSIVE ToInt(_)
ToInt(ds) ==
    IF ds = <<>> THEN 0
    ELSE ToInt(SubSeq(ds, 1, Len(ds) - 1)) * 10 + DigitVal(ds[Len(ds)])

\* the sequences over S of length at most n
SeqsUpTo(S, n) == UNION {[1..k -> S] : k \in 0..n}

-----------------------------------------------------------------------------
(* Regular expressions over lexemes *)

\* character classes used by the patterns of the program
InClass(cls, t) ==
    CASE cls = "digit" -> t \in Digits                                \* \d
      [] cls = "nondigit" -> t \notin Digits                          \* [^\d]
      [] cls = "dot" -> t # "\n"                                      \* .
      [] cls = "sep1" -> t \in {"=", ":", " "}                        \* [=: ]
      [] cls = "sep4" -> t \in {"\"", "'", ":", " ", "\n", "\t"}      \* ["':\s]

Lit(t) == [kind |-> "lit", tok |-> t, cls |-> "", min |-> 0, cap |-> FALSE]
Rep(c, m, g) == [kind |-> "rep", tok |-> "", cls |-> c, min |-> m, cap |-> g]

NoMatch == [ok |-> FALSE, start |-> 0, end |-> 0, cap |-> <<>>]

\* the number of consecutive lexemes of class cls from position i on
RECURSIVE RunLen(_, _, _)
RunLen(cls, text, i) ==
    IF i > Len(text) \/ ~InClass(cls, text[i]) THEN 0
    ELSE 1 + RunLen(cls, text, i + 1)

\* Backtracking match of pat[k..] at position i of text: a literal must equal
\* the lexeme up to case; a repetition takes the longest run first and gives
\* back one lexeme at a time until the rest of the pattern matches.
RECURSIVE MatchFrom(_, _, _, _)
RECURSIVE TryRep(_, _, _, _, _)
MatchFrom(pat, k, text, i) ==
    IF k > Len(pat) THEN [ok |-> TRUE, start |-> 0, end |-> i, cap |-> <<>>]
    ELSE IF pat[k].kind = "lit"
         THEN IF i <= Len(text) /\ Lower(text[i]) = Lower(pat[k].tok)
              THEN MatchFrom(pat, k + 1, text, i + 1)
              ELSE NoMatch
         ELSE TryRep(pat, k, text, i, RunLen(pat[k].cls, text, i))

TryRep(pat, k, text, i, j) ==
    IF j < pat[k].min THEN NoMatch
    ELSE LET r == MatchFrom(pat, k + 1, text, i + j)
         IN IF r.ok
            THEN IF pat[k].cap
                 THEN [r EXCEPT !.cap = SubSeq(text, i, i + j - 1)]
                 ELSE r
            ELSE TryRep(pat, k, text, i, j - 1)

\* re.search(pattern, text, re.IGNORECASE): the match at the leftmost start
RECURSIVE SearchFrom(_, _, _)
SearchFrom(pat, text, i) ==
    IF i > Len(text) + 1 THEN NoMatch
    ELSE LET r == MatchFrom(pat, 1, text, i)
         IN IF r.ok THEN [r EXCEPT !.start = i]
            ELSE SearchFrom(pat, text, i + 1)

Search(pat, text) == SearchFrom(pat, text, 1)

-----------------------------------------------------------------------------
(* tools.py: _extract_run_id *)

ExtractPatterns ==
    << <<Lit("run_id"), Rep("sep1", 1, FALSE), Rep("digit", 1, TRUE)>>,
       <<Lit("Run ID"), Rep("sep1", 1, FALSE), Rep("digit", 1, TRUE)>>,
       <<Lit("Submitted run"), Rep("nondigit", 0, FALSE), Rep("digit", 1, TRUE)>>,
       <<Lit("databricks run now response"), Rep("dot", 0, FALSE),
         Lit("run_id"), Rep("sep4", 1, FALSE), Rep("digit", 1, TRUE)>> >>

\* the patterns in the order the loop tries them
PatternOrder == <<1, 2, 3, 4>>

\* for p in patterns: match = re.search(p, ...); if match: return int(...)
RECURSIVE ExtractLoop(_, _)
ExtractLoop(log_text, n) ==
    IF n > Len(PatternOrder) THEN None
    ELSE LET m == Search(ExtractPatterns[PatternOrder[n]], log_text)
         IN IF m.ok THEN Some(ToInt(m.cap))
            ELSE ExtractLoop(log_text, n + 1)

\* a variant that returns the capture of the match that starts earliest in the text
extract_run_id_earliest(log_text) ==
    LET hits == {p \in 1..Len(ExtractPatterns) : Search(ExtractPatterns[p], log_text).ok}
    IN IF hits = {} THEN None
       ELSE LET best == CHOOSE p \in hits : \A q \in hits :
                          \/ Search(ExtractPatterns[p], log_text).start
                               < Search(ExtractPatterns[q], log_text).start
                          \/ /\ Search(ExtractPatterns[p], log_text).start
                                  = Search(ExtractPatterns[q], log_text).start
                             /\ p <= q
            IN Some(ToInt(Search(ExtractPatterns[best], log_text).cap))

extract_run_id(log_text) == ExtractLoop(log_text, 1)

-----------------------------------------------------------------------------
(* rca_engine.py: RCAEngine *)

DotStar == Rep("dot", 0, FALSE)

\* self.patterns: a dict, iterated in insertion order
patterns ==
    << [error_type |-> "SchemaMismatch", regex_list |->
          << <<Lit("AnalysisException:"), Lit(" cannot resolve")>>,
             <<Lit("AnalysisException:"), DotStar, Lit("column"), DotStar,
               Lit("not found")>>,
             <<Lit("Schema variance detected")>> >>],
       [error_type |-> "OOM", regex_list |->
          << <<Lit("java.lang.OutOfMemoryError")>>,
             <<Lit("Container killed by YARN for exceeding memory limits")>>,
             <<Lit("ExecutorLostFailure")>>,
             <<Lit("Total size of serialized results"), DotStar,
               Lit("is bigger than")>> >>],
       [error_type |-> "Permissions", regex_list |->
          << <<Lit("AccessDeniedException")>>,
             <<Lit("403 Forbidden")>>,
             <<Lit("does not have permission")>> >>],
       [error_type |-> "DataQuality", regex_list |->
          << <<Lit("Constraint violation")>>,
             <<Lit("NullPointerException"), DotStar, Lit("input row")>> >>],
       [error_type |-> "Timeout", regex_list |->
          << <<Lit("TimeoutException")>>,
             <<Lit("Heartbeat missing")>> >>] >>

\* RCAEngine._recommend
recommend(error_type) ==
    CASE error_type = "SchemaMismatch" ->
           "Check upstream schema changes. Update usage in Silver/Gold layers."
      [] error_type = "OOM" ->
           "Increase cluster memory (scale up) or improve partitioning (repartition)."
      [] error_type = "Permissions" -> "Check Service Principal IAM roles."
      [] error_type = "DataQuality" ->
           "Check for null primary keys or constraint violations."
      [] error_type = "Timeout" ->
           "Check network connectivity or increase timeout settings."
      [] OTHER -> "Investigate manually."

\* the two nested loops of analyze: category c, pattern p of that category
RECURSIVE AnalyzeLoop(_, _, _)
AnalyzeLoop(log_text, c, p) ==
    IF c > Len(patterns)
    THEN [root_cause |-> "Unknown", confidence |-> "Low",
          details |-> "No specific error pattern matched. Manual review required."]
    ELSE IF p > Len(patterns[c].regex_list)
         THEN AnalyzeLoop(log_text, c + 1, 1)
         ELSE LET m == Search(patterns[c].regex_list[p], log_text)
              IN IF m.ok
                 THEN [root_cause |-> patterns[c].error_type,
                       confidence |-> "High",
                       evidence |-> SubSeq(log_text, m.start, m.end - 1),
                       recommendation |-> recommend(patterns[c].error_type)]
                 ELSE AnalyzeLoop(log_text, c, p + 1)

\* a variant that reports the category whose signature starts earliest in the text
analyze_earliest(log_text) ==
    LET hits == {cp \in {<<c, p>> : c \in 1..Len(patterns), p \in 1..4} :
                   /\ cp[2] <= Len(patterns[cp[1]].regex_list)
                   /\ Search(patterns[cp[1]].regex_list[cp[2]], log_text).ok}
        StartOf(cp) == Search(patterns[cp[1]].regex_list[cp[2]], log_text).start
    IN IF hits = {}
       THEN AnalyzeLoop(log_text, Len(patterns) + 1, 1)
       ELSE LET best == CHOOSE cp \in hits : \A o \in hits :
                          \/ StartOf(cp) < StartOf(o)
                          \/ StartOf(cp) = StartOf(o) /\ cp[1] <= o[1]
                m == Search(patterns[best[1]].regex_list[best[2]], log_text)
            IN [root_cause |-> patterns[best[1]].error_type,
                confidence |-> "High",
                evidence |-> SubSeq(log_text, m.start, m.end - 1),
                recommendation |-> recommend(patterns[best[1]].error_type)]

\* RCAEngine.analyze
analyze(log_text) ==
    IF log_text = <<>>
    THEN [root_cause |-> "Unknown", confidence |-> "Low",
          details |-> "No logs provided for analysis."]
    ELSE AnalyzeLoop(log_text, 1, 1)

-----------------------------------------------------------------------------
(* policy.py: PolicyGuardrails *)

\* a variant that takes an empty allowlist for "no restriction"
is_dag_allowed_open(dag_id) ==
    IF allowlist_dags = {} THEN TRUE
    ELSE dag_id \in allowlist_dags

\* is_dag_allowed: an empty allowlist denies every pipeline
is_dag_allowed(dag_id) ==
    IF allowlist_dags = {} THEN FALSE
    ELSE dag_id \in allowlist_dags

\* f"DAG '{dag_id}' is not in the allowlist."
NotInAllowlistReason(dag_id) == <<"DAG '", dag_id, "' is not in the allowlist.">>

\* f"Max reruns reached ({current_try_number} > {self.max_reruns})."
MaxRerunsReason(current_try_number) ==
    <<"Max reruns reached (", ToString(current_try_number), " > ",
      ToString(max_reruns), ").">>

\* f"Root cause '{rca_root_cause}' requires manual intervention."
ManualReason(rca_root_cause) ==
    <<"Root cause '", rca_root_cause, "' requires manual intervention.">>

\* a variant that leaves the permission failures out
unsafe_causes_short == {"SchemaMismatch", "DataQuality"}

unsafe_causes == {"SchemaMismatch", "Permissions", "DataQuality"}

\* a variant that asks the root cause first, then the attempts, then the allowlist
validate_rerun_cause_first(dag_id, current_try_number, rca_root_cause) ==
    IF rca_root_cause \in unsafe_causes
    THEN [allowed |-> FALSE, reason |-> ManualReason(rca_root_cause)]
    ELSE IF current_try_number > max_reruns
    THEN [allowed |-> FALSE, reason |-> MaxRerunsReason(current_try_number)]
    ELSE IF ~is_dag_allowed(dag_id)
    THEN [allowed |-> FALSE, reason |-> NotInAllowlistReason(dag_id)]
    ELSE [allowed |-> TRUE, reason |-> <<"Safe to rerun.">>]

\* a variant whose attempt rule denies from the maximum on (>= for >)
validate_rerun_geq(dag_id, current_try_number, rca_root_cause) ==
    IF ~is_dag_allowed(dag_id)
    THEN [allowed |-> FALSE, reason |-> NotInAllowlistReason(dag_id)]
    ELSE IF current_try_number >= max_reruns
    THEN [allowed |-> FALSE, reason |-> MaxRerunsReason(current_try_number)]
    ELSE IF rca_root_cause \in unsafe_causes
    THEN [allowed |-> FALSE, reason |-> ManualReason(rca_root_cause)]
    ELSE [allowed |-> TRUE, reason |-> <<"Safe to rerun.">>]

\* validate_rerun: rule 1 allowlist, rule 2 attempts, rule 3 root cause
validate_rerun(dag_id, current_try_number, rca_root_cause) ==
    IF ~is_dag_allowed(dag_id)
    THEN [allowed |-> FALSE, reason |-> NotInAllowlistReason(dag_id)]
    ELSE IF current_try_number > max_reruns
    THEN [allowed |-> FALSE, reason |-> MaxRerunsReason(current_try_number)]
    ELSE IF rca_root_cause \in unsafe_causes
    THEN [allowed |-> FALSE, reason |-> ManualReason(rca_root_cause)]
    ELSE [allowed |-> TRUE, reason |-> <<"Safe to rerun.">>]

UpperCase == <<"A", "B", "C", "D", "E", "F", "G", "H", "I", "J", "K", "L", "M",
               "N", "O", "P", "Q", "R", "S", "T", "U", "V", "W", "X", "Y", "Z">>
LowerCase == <<"a", "b", "c", "d", "e", "f", "g", "h", "i", "j", "k", "l", "m",
               "n", "o", "p", "q", "r", "s", "t", "u", "v", "w", "x", "y", "z">>

\* str.lower() on a string given as its sequence of characters
LowerChar(c) ==
    IF \E i \in 1..Len(UpperCase) : UpperCase[i] = c
    THEN LowerCase[CHOOSE i \in 1..Len(UpperCase) : UpperCase[i] = c]
    ELSE c

LowerStr(s) == [i \in 1..Len(s) |-> LowerChar(s[i])]

\* needle in haystack, both sequences of characters
Contains(haystack, needle) ==
    \E i \in 0..(Len(haystack) - Len(needle)) :
        \A k \in 1..Len(needle) : haystack[i + k] = needle[k]

\* a variant that forgets lower()
check_safety_case_sensitive(tool_name, params) ==
    IF Contains(tool_name, <<"d", "e", "l", "e", "t", "e">>)
    THEN FALSE
    ELSE TRUE

\* check_safety: "delete" in tool_name.lower()
check_safety(tool_name, params) ==
    IF Contains(LowerStr(tool_name), <<"d", "e", "l", "e", "t", "e">>)
    THEN FALSE
    ELSE TRUE

-----------------------------------------------------------------------------
(* The collaborators: what the two clients can answer *)

\* a collaborator call that raised, with str(e)
Raised == [raised |-> TRUE, message |-> "Connection refused"]

Dags == {"gold_sales_daily", "silver_orders"}

RunId == "run_2024_06_15"

\* the task instances of the run, in the order the API lists them
TaskInstances ==
    << [task_id |-> "run_notebook", try_number |-> 1],
       [task_id |-> "publish", try_number |-> 3],
       [task_id |-> "load_gold", try_number |-> 2] >>

\* AirflowClient.get_failed_tasks: the task instances in state "failed", each
\* task once and at most MaxTasks of them, or an exception
FailedTasksAnswers ==
    {[raised |-> FALSE,
      failed |-> SelectSeq(TaskInstances, LAMBDA t : t.task_id \in failed)] :
        failed \in {ids \in SUBSET {TaskInstances[i].task_id :
                                      i \in 1..Len(TaskInstances)} :
                       Cardinality(ids) <= MaxTasks}}
        \cup {Raised}

\* the log texts Airflow serves
LogTexts ==
    { <<"x">>,
      <<>>,
      <<"AnalysisException:", " cannot resolve">>,
      <<"RUN_ID", ":", "0">>,
      <<"Run ID", ":", "1", "0", "0", "2", "3", "5">>,
      <<"TimeoutException", "\n", "Submitted run", "7">> }

\* what the request of get_task_log does: a log, a 404, or a
\* RequestException (connection failure, timeout, error status)
LogResponses ==
    {[raised |-> FALSE, status_code |-> 200, text |-> t] : t \in LogTexts}
        \cup {[raised |-> FALSE, status_code |-> 404, text |-> <<>>], Raised}

\* a variant that answers a failed request with an empty log
get_task_log_silent(response) ==
    IF response.raised THEN <<>>
    ELSE IF response.status_code = 404 THEN <<"Log not found.">>
    ELSE response.text

\* AirflowClient.get_task_log: the log text; "Log not found." on a 404 and
\* "Error fetching logs: ..." when the request failed
get_task_log(response) ==
    IF response.raised THEN <<"Error fetching logs: ", response.message>>
    ELSE IF response.status_code = 404 THEN <<"Log not found.">>
    ELSE response.text

LogAnswers == {get_task_log(response) : response \in LogResponses}

\* the bodies Databricks serves for runs/get-output
OutputBodies ==
    { [error_trace |-> <<"java.lang.OutOfMemoryError">>],
      [error_trace |-> <<"Schema variance detected">>],
      [metadata |-> <<"x">>] }

\* what the request of get_run_output does: a body, or an exception
OutputResponses == {[raised |-> FALSE, json |-> d] : d \in OutputBodies} \cup {Raised}

\* DatabricksClient.get_run_output: the response, or {"error": str(e)}
get_run_output(response) ==
    IF response.raised THEN [error |-> <<response.message>>] ELSE response.json

OutputAnswers == {get_run_output(response) : response \in OutputResponses}

\* AirflowClient.trigger_dag_run: the new run, or an exception
TriggerAnswers == {[dag_run_id |-> "manual__1", raised |-> FALSE], Raised}

\* DatabricksClient.run_now: the new run, or an exception
RunNowAnswers == {[run_id |-> 1, raised |-> FALSE], Raised}

-----------------------------------------------------------------------------
(* tools.py: the workflows *)

\* dict.get(key, default)
Get(d, key, default) == IF key \in DOMAIN d THEN d[key] ELSE default

Call(name, arg, res) == [op |-> name, arg |-> arg, res |-> res]

\* a call of a client method that returned res after its request did response
CallVia(name, arg, response, res) ==
    [op |-> name, arg |-> arg, res |-> res, response |-> response]

NoReturn == [pending |-> TRUE]
NoReport == [pending |-> TRUE]
NoOp == [name |-> "none"]

\* airflow_get_failed_tasks decoded: the list, or [{"error": str(e)}]
airflow_get_failed_tasks(answer) ==
    IF answer.raised THEN <<[error |-> answer.message]>> ELSE answer.failed

\* db_out_dict.get("error_trace", "") or db_out_dict.get("error", "")
error_trace(db_out_dict) ==
    LET trace1 == Get(db_out_dict, "error_trace", <<>>)
    IN IF trace1 # <<>> THEN trace1 ELSE Get(db_out_dict, "error", <<>>)

\* the log context generate_rca hands to the classifier for a task whose log
\* is af_log, get_run_output answering db_out_dict when it is asked
LogContext(af_log, db_out_dict) ==
    LET db_run_id == extract_run_id(af_log)
    IN IF db_run_id.some /\ db_run_id.val # 0                 \* if db_run_id:
       THEN af_log \o <<"\n", "--- Databricks Error ---", "\n">>
                   \o error_trace(db_out_dict)
       ELSE af_log

\* _extract_run_id and rca.analyze on the answers of the collaborators,
\* tabulated once
RunIdOf == [af_log \in LogAnswers |-> extract_run_id(af_log)]
LogContextOf == [af_log \in LogAnswers |-> [db_out_dict \in OutputAnswers |->
                    LogContext(af_log, db_out_dict)]]
RcaOf == [af_log \in LogAnswers |-> [db_out_dict \in OutputAnswers |->
            analyze(LogContextOf[af_log][db_out_dict])]]

\* the body of the loop of generate_rca for one task: the entry appended to
\* report["tasks"]
TaskAnalysis(task, af_log, db_out_dict) ==
    LET db_run_id == RunIdOf[af_log]
        rca_result == RcaOf[af_log][db_out_dict]
    IN IF db_run_id.some /\ db_run_id.val # 0
       THEN [task_id |-> task.task_id, root_cause_analysis |-> rca_result,
             databricks_run_id |-> db_run_id.val]
       ELSE [task_id |-> task.task_id, root_cause_analysis |-> rca_result]

\* the calls of that loop body: the log, the job's output when an id was
\* found, the classifier
TaskCalls(task, log_response, out_response) ==
    LET af_log == get_task_log(log_response)
        db_out_dict == get_run_output(out_response)
        db_run_id == RunIdOf[af_log]
    IN <<CallVia("get_task_log", <<task.task_id, task.try_number>>,
                 log_response, af_log)>>
       \o (IF db_run_id.some /\ db_run_id.val # 0
           THEN <<CallVia("get_run_output", db_run_id.val, out_response,
                          db_out_dict)>>
           ELSE <<>>)
       \o <<Call("analyze", LogContextOf[af_log][db_out_dict],
                 RcaOf[af_log][db_out_dict])>>

\* generate_rca returns value: alone it is the operation's result; inside
\* rerun_failed_pipeline it is rca_report, and an empty task list ends the rerun
GenerateRcaReturns(value) ==
    IF op.name = "generate_rca"
    THEN /\ ret' = value
         /\ pc' = "Done"
         /\ report' = value
         /\ idx' = 0
    ELSE /\ report' = value
         /\ IF Get(value, "tasks", <<>>) = <<>>
            THEN /\ ret' = [status |-> "Nothing to rerun."]
                 /\ pc' = "Done"
                 /\ idx' = 0
            ELSE /\ ret' = ret
                 /\ pc' = "Validating"
                 /\ idx' = 1

Idle ==
    /\ pc = "Idle"
    /\ op = NoOp
    /\ failed_tasks = <<>>
    /\ idx = 0
    /\ report = NoReport
    /\ ret = NoReturn
    /\ calls = <<>>

\* a caller invokes generate_rca(dag_id, run_id)
generate_rca(dag_id) ==
    /\ pc = "Idle"
    /\ pc' = "Diagnosing"
    /\ op' = [name |-> "generate_rca", dag_id |-> dag_id, run_id |-> RunId]
    /\ UNCHANGED <<max_reruns, allowlist_dags, failed_tasks, idx, report, ret, calls>>

\* a caller invokes rerun_failed_pipeline(dag_id, run_id); it starts with generate_rca
rerun_failed_pipeline(dag_id) ==
    /\ pc = "Idle"
    /\ pc' = "Diagnosing"
    /\ op' = [name |-> "rerun_failed_pipeline", dag_id |-> dag_id, run_id |-> RunId]
    /\ UNCHANGED <<max_reruns, allowlist_dags, failed_tasks, idx, report, ret, calls>>

\* generate_rca, step 1: the failed tasks
GetFailedTasks ==
    /\ pc = "Diagnosing" /\ idx = 0
    /\ \E answer \in FailedTasksAnswers :
         LET decoded == airflow_get_failed_tasks(answer)
         IN /\ failed_tasks' = decoded
            /\ calls' = Append(calls, CallVia("get_failed_tasks", op.dag_id,
                                              answer, decoded))
            /\ IF decoded = <<>> \/ "error" \in DOMAIN decoded[1]
               THEN GenerateRcaReturns([status |-> "No failed tasks found."])
               ELSE /\ report' = [dag_id |-> op.dag_id, run_id |-> op.run_id,
                                  tasks |-> <<>>]
                    /\ idx' = 1
                    /\ UNCHANGED <<pc, ret>>
    /\ UNCHANGED <<max_reruns, allowlist_dags, op>>

\* a variant that puts each new entry at the head of report["tasks"]
AnalyzeTask_prepend ==
    /\ pc = "Diagnosing" /\ idx >= 1 /\ idx <= Len(failed_tasks)
    /\ \E log_response \in LogResponses, out_response \in OutputResponses :
         LET task == failed_tasks[idx]
             af_log == get_task_log(log_response)
             db_out_dict == get_run_output(out_response)
             grown == [report EXCEPT !.tasks =
                          <<TaskAnalysis(task, af_log, db_out_dict)>> \o @]
         IN /\ calls' = calls \o TaskCalls(task, log_response, out_response)
            /\ IF idx = Len(failed_tasks)
               THEN GenerateRcaReturns(grown)
               ELSE /\ report' = grown
                    /\ idx' = idx + 1
                    /\ UNCHANGED <<pc, ret>>
    /\ UNCHANGED <<max_reruns, allowlist_dags, op, failed_tasks>>

\* generate_rca, steps 2 to 5 for the task at idx; after the last task the
\* report is returned
AnalyzeTask ==
    /\ pc = "Diagnosing" /\ idx >= 1 /\ idx <= Len(failed_tasks)
    /\ \E log_response \in LogResponses, out_response \in OutputResponses :
         LET task == failed_tasks[idx]
             af_log == get_task_log(log_response)
             db_out_dict == get_run_output(out_response)
             grown == [report EXCEPT !.tasks =
                          Append(@, TaskAnalysis(task, af_log, db_out_dict))]
         IN /\ calls' = calls \o TaskCalls(task, log_response, out_response)
            /\ IF idx = Len(failed_tasks)
               THEN GenerateRcaReturns(grown)
               ELSE /\ report' = grown
                    /\ idx' = idx + 1
                    /\ UNCHANGED <<pc, ret>>
    /\ UNCHANGED <<max_reruns, allowlist_dags, op, failed_tasks>>

\* a variant that hands the policy the attempt number the failed step records
current_try_recorded ==
    IF idx \in 1..Len(failed_tasks) THEN failed_tasks[idx].try_number ELSE 1

\* the attempt number rerun_failed_pipeline hands to the policy
current_try == 1

\* a variant that decides on the first task alone: allowed, it goes on to the trigger
ValidateTask_first_only ==
    /\ pc = "Validating" /\ idx <= Len(report.tasks)
    /\ LET task == report.tasks[idx]
           root_cause == Get(task.root_cause_analysis, "root_cause", "Unknown")
           validation == validate_rerun(op.dag_id, current_try, root_cause)
       IN /\ calls' = Append(calls, Call("validate_rerun", idx, validation))
          /\ IF ~validation.allowed
             THEN /\ ret' = [status |-> "Rerun Blocked",
                             reason |-> validation.reason,
                             task_id |-> task.task_id]
                  /\ pc' = "Done"
                  /\ idx' = idx
             ELSE /\ ret' = ret
                  /\ idx' = idx + 1
                  /\ pc' = "Triggering"
    /\ UNCHANGED <<max_reruns, allowlist_dags, op, failed_tasks, report>>

\* a variant that notes a denial and goes on through the remaining tasks, so
\* that the last denied task is the one reported
ValidateTask_keep_going ==
    /\ pc = "Validating" /\ idx <= Len(report.tasks)
    /\ LET task == report.tasks[idx]
           root_cause == Get(task.root_cause_analysis, "root_cause", "Unknown")
           validation == validate_rerun(op.dag_id, current_try, root_cause)
           blocked == IF ~validation.allowed
                      THEN [status |-> "Rerun Blocked",
                            reason |-> validation.reason,
                            task_id |-> task.task_id]
                      ELSE ret
       IN /\ calls' = Append(calls, Call("validate_rerun", idx, validation))
          /\ ret' = blocked
          /\ IF idx < Len(report.tasks)
             THEN idx' = idx + 1 /\ pc' = "Validating"
             ELSE /\ idx' = idx
                  /\ pc' = IF blocked = NoReturn THEN "Triggering" ELSE "Done"
    /\ UNCHANGED <<max_reruns, allowlist_dags, op, failed_tasks, report>>

\* a variant that stays in the loop after the last allowed task and never
\* reaches the trigger
ValidateTask_no_exit ==
    /\ pc = "Validating" /\ idx <= Len(report.tasks)
    /\ LET task == report.tasks[idx]
           root_cause == Get(task.root_cause_analysis, "root_cause", "Unknown")
           validation == validate_rerun(op.dag_id, current_try, root_cause)
       IN /\ calls' = Append(calls, Call("validate_rerun", idx, validation))
          /\ IF ~validation.allowed
             THEN /\ ret' = [status |-> "Rerun Blocked",
                             reason |-> validation.reason,
                             task_id |-> task.task_id]
                  /\ pc' = "Done"
                  /\ idx' = idx
             ELSE /\ ret' = ret
                  /\ idx' = idx + 1
                  /\ pc' = "Validating"
    /\ UNCHANGED <<max_reruns, allowlist_dags, op, failed_tasks, report>>

\* rerun_failed_pipeline, step 2: the policy for the task at idx
ValidateTask ==
    /\ pc = "Validating" /\ idx <= Len(report.tasks)
    /\ LET task == report.tasks[idx]
           root_cause == Get(task.root_cause_analysis, "root_cause", "Unknown")
           validation == validate_rerun(op.dag_id, current_try, root_cause)
       IN /\ calls' = Append(calls, Call("validate_rerun", idx, validation))
          /\ IF ~validation.allowed
             THEN /\ ret' = [status |-> "Rerun Blocked",
                             reason |-> validation.reason,
                             task_id |-> task.task_id]
                  /\ pc' = "Done"
                  /\ idx' = idx
             ELSE /\ ret' = ret
                  /\ idx' = idx + 1
                  /\ pc' = IF idx = Len(report.tasks) THEN "Triggering"
                           ELSE "Validating"
    /\ UNCHANGED <<max_reruns, allowlist_dags, op, failed_tasks, report>>

\* a variant that calls the trigger a second time when the first call raised
TriggerRerun_retry ==
    /\ pc = "Triggering"
    /\ \E first \in TriggerAnswers, res \in TriggerAnswers :
         LET trigger(answer) ==
                 Call("trigger_dag_run",
                      <<op.dag_id, [rerun_initiator |-> "mcp_agent",
                                    original_run |-> op.run_id]>>, answer)
             last == IF first.raised THEN res ELSE first
         IN /\ calls' = IF first.raised
                        THEN calls \o <<trigger(first), trigger(res)>>
                        ELSE Append(calls, trigger(first))
            /\ ret' = IF last.raised
                      THEN [error |-> <<"Failed to trigger rerun: ", last.message>>]
                      ELSE [status |-> "Rerun Triggered", new_run_details |-> last]
    /\ pc' = "Done"
    /\ UNCHANGED <<max_reruns, allowlist_dags, op, failed_tasks, idx, report>>

\* rerun_failed_pipeline, step 3: the trigger
TriggerRerun ==
    /\ pc = "Triggering"
    /\ \E res \in TriggerAnswers :
         /\ calls' = Append(calls, Call("trigger_dag_run",
                        <<op.dag_id, [rerun_initiator |-> "mcp_agent",
                                      original_run |-> op.run_id]>>, res))
         /\ ret' = IF res.raised
                   THEN [error |-> <<"Failed to trigger rerun: ", res.message>>]
                   ELSE [status |-> "Rerun Triggered", new_run_details |-> res]
    /\ pc' = "Done"
    /\ UNCHANGED <<max_reruns, allowlist_dags, op, failed_tasks, idx, report>>

DbxRunNowName == <<"d", "b", "x", "_", "r", "u", "n", "_", "n", "o", "w">>

JobIds == {42}
JobParams == {"None", "notebook_params"}

\* a variant that runs the job without asking check_safety
dbx_run_now_unguarded(job_id, params) ==
    /\ pc = "Idle"
    /\ op' = [name |-> "dbx_run_now", job_id |-> job_id, params |-> params]
    /\ \E res \in RunNowAnswers :
         /\ calls' = <<Call("run_now", job_id, params)>>
         /\ ret' = IF res.raised THEN [error |-> <<res.message>>]
                   ELSE res
    /\ pc' = "Done"
    /\ UNCHANGED <<max_reruns, allowlist_dags, failed_tasks, idx, report>>

\* dbx_run_now(job_id, params): the safety check, then the job
dbx_run_now(job_id, params) ==
    /\ pc = "Idle"
    /\ op' = [name |-> "dbx_run_now", job_id |-> job_id, params |-> params]
    /\ LET safe == check_safety(DbxRunNowName, params)
       IN IF ~safe
          THEN /\ calls' = <<Call("check_safety", DbxRunNowName, safe)>>
               /\ ret' = [error |-> <<"Action blocked by safety policy.">>]
          ELSE \E res \in RunNowAnswers :
                 /\ calls' = <<Call("check_safety", DbxRunNowName, safe),
                               Call("run_now", job_id, params)>>
                 /\ ret' = IF res.raised THEN [error |-> <<res.message>>]
                           ELSE res
    /\ pc' = "Done"
    /\ UNCHANGED <<max_reruns, allowlist_dags, failed_tasks, idx, report>>

\* the policy asked directly: validate_rerun(dag_id, current_try_number, rca_root_cause)
Causes == {"SchemaMismatch", "OOM", "Permissions", "DataQuality", "Timeout", "Unknown"}

Evaluate(dag_id, current_try_number, rca_root_cause) ==
    /\ pc = "Idle"
    /\ op' = [name |-> "validate_rerun", dag_id |-> dag_id,
              current_try_number |-> current_try_number,
              rca_root_cause |-> rca_root_cause]
    /\ ret' = validate_rerun(dag_id, current_try_number, rca_root_cause)
    /\ pc' = "Done"
    /\ UNCHANGED <<max_reruns, allowlist_dags, failed_tasks, idx, report, calls>>

\* the operation has returned; the next one starts from scratch
Return ==
    /\ pc = "Done"
    /\ pc' = "Idle"
    /\ op' = NoOp
    /\ failed_tasks' = <<>>
    /\ idx' = 0
    /\ report' = NoReport
    /\ ret' = NoReturn
    /\ calls' = <<>>
    /\ UNCHANGED <<max_reruns, allowlist_dags>>

\* PolicyGuardrails.__init__: MAX_RERUNS and ALLOWLIST_DAGS of the environment
Init ==
    /\ max_reruns \in 0..MaxRerunsCfg
    /\ allowlist_dags \in {{}, {"gold_sales_daily"}}
    /\ Idle

Next ==
    \/ \E d \in Dags : generate_rca(d)
    \/ \E d \in Dags : rerun_failed_pipeline(d)
    \/ GetFailedTasks
    \/ AnalyzeTask
    \/ ValidateTask
    \/ TriggerRerun
    \/ \E j \in JobIds, p \in JobParams : dbx_run_now(j, p)
    \/ \E d \in Dags, t \in 0..MaxTry, c \in Causes : Evaluate(d, t, c)
    \/ Return

Spec == Init /\ [][Next]_vars

\* the workflows when every call of a collaborator returns or raises: the
\* code between two calls is sequential and goes on. The reads carry request
\* timeouts; the post of trigger_dag_run carries none, so for it this is an
\* assumption about the collaborator.
SpecLive ==
    /\ Spec
    /\ WF_vars(GetFailedTasks)
    /\ WF_vars(AnalyzeTask)
    /\ WF_vars(ValidateTask)
    /\ WF_vars(TriggerRerun)

-----------------------------------------------------------------------------
(* The pure functions, each applied to every text within the bounds *)

ExtractAlphabet ==
    {"RUN_ID", "Run ID", "Submitted run", "Databricks Run Now Response",
     ":", "\n", "0", "1"}

ClassifyAlphabet ==
    {"AnalysisException:", "column", "not found", "\n",
     "JAVA.LANG.OUTOFMEMORYERROR", "403 Forbidden", "Constraint violation",
     "TimeoutException", "x"}

NameFragments ==
    { <<"d", "e">>, <<"l", "e">>, <<"t", "e">>, <<"D", "E">>, <<"L", "e">>,
      <<"d", "r", "o", "p">>, <<"t", "r", "u", "n", "c", "a", "t", "e">>, <<"_">> }

RECURSIVE Concat(_)
Concat(ss) == IF ss = <<>> THEN <<>> ELSE Head(ss) \o Concat(Tail(ss))

ConfigDefault ==
    /\ max_reruns = 2
    /\ allowlist_dags = {}

Called(o) ==
    /\ ConfigDefault
    /\ pc = "Called"
    /\ op = o
    /\ failed_tasks = <<>>
    /\ idx = 0
    /\ report = NoReport
    /\ ret = NoReturn
    /\ calls = <<>>

Returns(value) ==
    /\ pc = "Called"
    /\ ret' = value
    /\ pc' = "Done"
    /\ UNCHANGED <<max_reruns, allowlist_dags, op, failed_tasks, idx, report, calls>>

InitExtract ==
    \E t \in SeqsUpTo(ExtractAlphabet, MaxTextLen) :
        Called([name |-> "_extract_run_id", text |-> t])

CallExtract == op.name = "_extract_run_id" /\ Returns([value |-> extract_run_id(op.text)])

SpecExtract == InitExtract /\ [][CallExtract]_vars

InitClassify ==
    \E t \in SeqsUpTo(ClassifyAlphabet, MaxLogLen) :
        Called([name |-> "analyze", text |-> t])

CallClassify == op.name = "analyze" /\ Returns(analyze(op.text))

SpecClassify == InitClassify /\ [][CallClassify]_vars

InitSafety ==
    \E fs \in SeqsUpTo(NameFragments, MaxNameFrags) :
        Called([name |-> "check_safety", tool_name |-> Concat(fs)])

CallSafety == op.name = "check_safety" /\ Returns([value |-> check_safety(op.tool_name, "None")])

SpecSafety == InitSafety /\ [][CallSafety]_vars

-----------------------------------------------------------------------------
(* Claims about the pure functions *)

\* pattern number p of _extract_run_id matches somewhere in text
PatternMatches(p, text) ==
    \E i \in 1..(Len(text) + 1) : MatchFrom(ExtractPatterns[p], 1, text, i).ok

\* C9: extract returns the integer captured by the first pattern, in declared
\* order, that matches anywhere in the text, wherever the later patterns
\* match, and returns no value exactly when no pattern matches.
C9_FirstDeclaredPatternWins ==
    (op.name = "_extract_run_id" /\ pc = "Done") =>
        LET matching == {p \in 1..4 : PatternMatches(p, op.text)}
        IN IF matching = {}
           THEN ret.value = None
           ELSE LET first == CHOOSE p \in matching : \A q \in matching : p <= q
                IN /\ ret.value # None
                   /\ ret.value =
                        Some(ToInt(Search(ExtractPatterns[first], op.text).cap))

\* a text where a later-declared pattern matches earlier in the text and
\* captures another integer, and the earlier-declared pattern's integer came back
C9_Witness ==
    /\ op.name = "_extract_run_id" /\ pc = "Done"
    /\ \E p, q \in 1..4 :
         /\ p < q
         /\ PatternMatches(p, op.text) /\ PatternMatches(q, op.text)
         /\ \A r \in 1..(p - 1) : ~PatternMatches(r, op.text)
         /\ Search(ExtractPatterns[q], op.text).start
              < Search(ExtractPatterns[p], op.text).start
         /\ ToInt(Search(ExtractPatterns[q], op.text).cap)
              # ToInt(Search(ExtractPatterns[p], op.text).cap)
         /\ ret.value = Some(ToInt(Search(ExtractPatterns[p], op.text).cap))

\* the categories in the order the table declares them
DeclaredOrder == <<"SchemaMismatch", "OOM", "Permissions", "DataQuality", "Timeout">>

\* some pattern of the category number c matches somewhere in text
CategoryMatches(c, text) ==
    \E p \in 1..Len(patterns[c].regex_list) : \E i \in 1..(Len(text) + 1) :
        MatchFrom(patterns[c].regex_list[p], 1, text, i).ok

\* C8: classify returns, with High confidence, the first category in declared
\* order that has a pattern matching anywhere in the text, and Unknown/Low
\* only when no pattern of any category matches.
C8_FirstDeclaredCategoryWins ==
    (op.name = "analyze" /\ pc = "Done") =>
        LET matching == {c \in 1..5 : CategoryMatches(c, op.text)}
        IN IF matching = {}
           THEN /\ ret.root_cause = "Unknown"
                /\ ret.confidence = "Low"
           ELSE LET first == CHOOSE c \in matching : \A d \in matching : c <= d
                IN /\ ret.root_cause = DeclaredOrder[first]
                   /\ ret.confidence = "High"

\* the earliest position at which a pattern of category c matches (0: none)
FirstStart(c, text) ==
    LET starts == {i \in 1..(Len(text) + 1) :
                     \E p \in 1..Len(patterns[c].regex_list) :
                        MatchFrom(patterns[c].regex_list[p], 1, text, i).ok}
    IN IF starts = {} THEN 0 ELSE CHOOSE i \in starts : \A j \in starts : i <= j

\* signatures of two categories are present, the later-declared one first in
\* the text, and the earlier-declared category came back
C8_Witness ==
    /\ op.name = "analyze" /\ pc = "Done"
    /\ \E c, d \in 1..5 :
         /\ c < d
         /\ CategoryMatches(c, op.text) /\ CategoryMatches(d, op.text)
         /\ FirstStart(d, op.text) < FirstStart(c, op.text)
         /\ ret.root_cause = DeclaredOrder[c]
         /\ ret.confidence = "High"

-----------------------------------------------------------------------------
(* Claims about the policy and the workflows *)

InRerun == op.name = "rerun_failed_pipeline"
InGenerateRca == op.name = "generate_rca"
EvaluateReturned == op.name = "validate_rerun" /\ pc = "Done"

\* the task entries of the report at hand
Tasks == Get(report, "tasks", <<>>)

\* the status tag of the value returned ("" when it carries none)
Status == Get(ret, "status", "")

\* the decision of the policy for a task entry, as rerun asks for it
Decision(task) ==
    validate_rerun(op.dag_id, current_try, task.root_cause_analysis.root_cause)

Denied == {i \in 1..Len(Tasks) : ~Decision(Tasks[i]).allowed}

CallsOf(name) == SelectSeq(calls, LAMBDA c : c.op = name)

TriggerInvoked == CallsOf("trigger_dag_run") # <<>>

\* C1: rerun invokes the rerun-trigger only if the policy allows every task of
\* the report; when some task is denied the outcome is blocked and the trigger
\* is never invoked.
C1_TriggerOnlyIfAllAllowed ==
    InRerun =>
        /\ TriggerInvoked => (pc = "Done" /\ Tasks # <<>> /\ Denied = {})
        /\ (pc = "Done" /\ Denied # {}) =>
              (Status = "Rerun Blocked" /\ ~TriggerInvoked)
        /\ (pc = "Triggering") => (Tasks # <<>> /\ Denied = {})

\* a rerun of two tasks, the first allowed and the second denied, ended blocked
C1_Witness ==
    /\ InRerun /\ pc = "Done"
    /\ Len(Tasks) = 2 /\ Denied = {2}
    /\ Status = "Rerun Blocked" /\ ~TriggerInvoked

\* C2: rerun evaluates the tasks in report order and stops at the first denied
\* one: the blocked outcome carries its id and the policy's reason for it, and
\* no later task is evaluated.
C2_StopsAtFirstDenied ==
    InRerun =>
        LET evaluated == CallsOf("validate_rerun")
        IN /\ \A k \in 1..Len(evaluated) : evaluated[k].arg = k
           /\ \A i \in Denied : Len(evaluated) <= i
           /\ (pc = "Done" /\ Status = "Rerun Blocked") =>
                /\ Denied # {}
                /\ LET first == CHOOSE i \in Denied : \A j \in Denied : i <= j
                   IN /\ ret.task_id = Tasks[first].task_id
                      /\ ret.reason = Decision(Tasks[first]).reason
                      /\ Len(evaluated) = first

\* blocked at the first of two tasks with different ids; the second was never evaluated
C2_Witness ==
    /\ InRerun /\ pc = "Done" /\ Status = "Rerun Blocked"
    /\ Len(Tasks) = 2 /\ 1 \in Denied
    /\ Tasks[1].task_id # Tasks[2].task_id
    /\ ret.task_id = Tasks[1].task_id
    /\ Len(CallsOf("validate_rerun")) = 1

\* C3 (as claimed): with an empty allowlist evaluate denies with a fail-closed
\* reason that differs from the reason given to a pipeline missing from a
\* non-empty allowlist.
C3_FailClosedReasonDistinct ==
    (EvaluateReturned /\ allowlist_dags = {}) =>
        /\ ~ret.allowed
        /\ ret.reason # <<"DAG '", op.dag_id, "' is not in the allowlist.">>

\* C3 (amended): with an empty allowlist evaluate denies every pipeline,
\* attempt and root cause, and the reason is the same "DAG '<id>' is not in the
\* allowlist." it gives to a pipeline missing from a non-empty allowlist.
C3_EmptyAllowlistDenies ==
    (EvaluateReturned /\ allowlist_dags = {}) =>
        /\ ~ret.allowed
        /\ ret.reason = <<"DAG '", op.dag_id, "' is not in the allowlist.">>

\* evaluate denied, under an empty allowlist, a first attempt at an out-of-memory failure
C3_Witness ==
    /\ EvaluateReturned /\ allowlist_dags = {}
    /\ op.current_try_number = 1 /\ op.current_try_number <= max_reruns
    /\ op.rca_root_cause = "OOM"
    /\ ~ret.allowed

\* the categories the claims call the manual-intervention set
ManualIntervention == {"SchemaMismatch", "Permissions", "DataQuality"}

\* C4: for an allowlisted pipeline and a root cause outside the
\* manual-intervention set, evaluate allows exactly when the attempt number is
\* at most the maximum: it allows at the maximum and denies at the maximum plus one.
C4_AttemptBudget ==
    (EvaluateReturned /\ op.dag_id \in allowlist_dags) =>
        /\ op.rca_root_cause \notin ManualIntervention =>
              (ret.allowed <=> op.current_try_number <= max_reruns)
        /\ (ret.reason = <<"Max reruns reached (", ToString(op.current_try_number),
                           " > ", ToString(max_reruns), ").">>)
              <=> op.current_try_number > max_reruns

\* the attempt number equals the maximum and the rerun is allowed
C4_Witness ==
    /\ EvaluateReturned /\ op.dag_id \in allowlist_dags
    /\ op.rca_root_cause \notin ManualIntervention
    /\ op.current_try_number = max_reruns
    /\ ret.allowed

\* C5: evaluate denies every root cause of the manual-intervention set, also
\* for an allowlisted pipeline within its attempt budget; and rerun never
\* triggers a pipeline whose report holds a task of one of those categories.
C5_ManualCausesNeverRerun ==
    /\ (/\ EvaluateReturned
        /\ op.rca_root_cause \in ManualIntervention
        /\ op.dag_id \in allowlist_dags
        /\ op.current_try_number <= max_reruns) => ~ret.allowed
    /\ (InRerun /\ TriggerInvoked) =>
          \A i \in 1..Len(Tasks) :
              Tasks[i].root_cause_analysis.root_cause \notin ManualIntervention

\* a rerun of an allowlisted pipeline, within budget, blocked for a schema mismatch
C5_Witness ==
    /\ InRerun /\ pc = "Done" /\ Status = "Rerun Blocked"
    /\ op.dag_id \in allowlist_dags /\ current_try <= max_reruns
    /\ \E i \in 1..Len(Tasks) :
         /\ Tasks[i].root_cause_analysis.root_cause = "SchemaMismatch"
         /\ ret.task_id = Tasks[i].task_id
         /\ ret.reason = <<"Root cause '", "SchemaMismatch", "' requires manual intervention.">>
    /\ ~TriggerInvoked

\* the characters of "delete", each in both cases
DeleteLetters ==
    << {"d", "D"}, {"e", "E"}, {"l", "L"}, {"e", "E"}, {"t", "T"}, {"e", "E"} >>

HasDeleteAnyCase(name) ==
    \E i \in 0..(Len(name) - 6) : \A k \in 1..6 : name[i + k] \in DeleteLetters[k]

JobTriggers == {"run_now", "trigger_dag_run"}

\* C7 (as claimed): every call of run_now and of the rerun-trigger is preceded,
\* within the same operation, by a check_safety evaluation that returned true.
C7_GuardBeforeEveryTrigger ==
    \A i \in 1..Len(calls) :
        calls[i].op \in JobTriggers =>
            \E j \in 1..(i - 1) : calls[j].op = "check_safety" /\ calls[j].res

\* C7 (amended): every call of run_now is preceded, within dbx_run_now, by a
\* check_safety evaluation that returned true; the rerun-trigger is preceded by
\* an allowing policy decision for every task of the report and by no
\* check_safety evaluation.
C7_GuardBeforeRunNow ==
    \A i \in 1..Len(calls) :
        /\ calls[i].op = "run_now" =>
              \E j \in 1..(i - 1) : calls[j].op = "check_safety" /\ calls[j].res
        /\ calls[i].op = "trigger_dag_run" =>
              /\ \A t \in 1..Len(Tasks) :
                    \E j \in 1..(i - 1) : /\ calls[j].op = "validate_rerun"
                                          /\ calls[j].arg = t
                                          /\ calls[j].res.allowed
              /\ \A j \in 1..(i - 1) : calls[j].op # "check_safety"

\* dbx_run_now reached run_now after the guard
C7_Witness ==
    /\ op.name = "dbx_run_now" /\ pc = "Done"
    /\ Len(calls) = 2
    /\ calls[1].op = "check_safety" /\ calls[1].res
    /\ calls[2].op = "run_now"

ClassificationResults ==
    [root_cause : {"SchemaMismatch", "OOM", "Permissions", "DataQuality", "Timeout"},
     confidence : {"High"}]
        \cup [root_cause : {"Unknown"}, confidence : {"Low"}]

\* the collaborator answered get_failed_tasks with a non-empty list of failed steps
NonEmptyFailedList == failed_tasks # <<>> /\ "task_id" \in DOMAIN failed_tasks[1]

\* C10: for a non-empty list of failed steps the report of diagnose holds one
\* entry per failed step, in the collaborator's order, each with one
\* classification result.
C10_OneEntryPerFailedStep ==
    ((InGenerateRca \/ InRerun) /\ NonEmptyFailedList) =>
        /\ "tasks" \in DOMAIN report
        /\ pc = "Diagnosing" => Len(report.tasks) = idx - 1
        /\ pc # "Diagnosing" => Len(report.tasks) = Len(failed_tasks)
        /\ (InGenerateRca /\ pc = "Done") => ret = report
        /\ \A i \in 1..Len(report.tasks) :
              /\ report.tasks[i].task_id = failed_tasks[i].task_id
              /\ "root_cause_analysis" \in DOMAIN report.tasks[i]
              /\ [root_cause |-> report.tasks[i].root_cause_analysis.root_cause,
                  confidence |-> report.tasks[i].root_cause_analysis.confidence]
                    \in ClassificationResults

\* diagnose returned a report of two steps with different ids, in the collaborator's order
C10_Witness ==
    /\ InGenerateRca /\ pc = "Done" /\ NonEmptyFailedList
    /\ Len(failed_tasks) = 2
    /\ failed_tasks[1].task_id # failed_tasks[2].task_id
    /\ Len(ret.tasks) = 2
    /\ ret.tasks[1].task_id = failed_tasks[1].task_id
    /\ ret.tasks[2].task_id = failed_tasks[2].task_id
    /\ ret.tasks[2].root_cause_analysis.root_cause = "Unknown"

-----------------------------------------------------------------------------
(* Claims about the context of the classifier *)

\* the position in calls of the i-th call of name (0: there is none)
NthCall(name, i) ==
    LET at == {p \in 1..Len(calls) :
                 /\ calls[p].op = name
                 /\ Cardinality({q \in 1..p : calls[q].op = name}) = i}
    IN IF at = {} THEN 0 ELSE CHOOSE p \in at : TRUE

\* the label that precedes the job's error in the log context
DatabricksSection == <<"\n", "--- Databricks Error ---", "\n">>

\* C11: in diagnose, for every failed step whose log yields a job-run id (any
\* integer the extractor returns, 0 included) the job's output is fetched for
\* that id, the id is recorded on the task entry and the classifier is given
\* the step log followed by the labeled error section; for a step with no
\* extracted id the classifier is given the step log alone and the job-runner
\* is not called.
C11_OutputFetchedForEveryExtractedId ==
    (InGenerateRca \/ InRerun) =>
        \A i \in 1..Len(Tasks) :
            LET p == NthCall("get_task_log", i)
                a == NthCall("analyze", i)
                af_log == calls[p].res
                db_run_id == extract_run_id(af_log)
            IN /\ p > 0 /\ a > p
               /\ IF db_run_id.some
                  THEN /\ a = p + 2
                       /\ calls[p + 1].op = "get_run_output"
                       /\ calls[p + 1].arg = db_run_id.val
                       /\ "databricks_run_id" \in DOMAIN Tasks[i]
                       /\ Tasks[i].databricks_run_id = db_run_id.val
                       /\ calls[a].arg = af_log \o DatabricksSection
                                            \o error_trace(calls[p + 1].res)
                  ELSE /\ a = p + 1
                       /\ "databricks_run_id" \notin DOMAIN Tasks[i]
                       /\ calls[a].arg = af_log

-----------------------------------------------------------------------------
(* Claims about the course of a rerun *)

\* the tags the value returned by rerun_failed_pipeline carries
OutcomeTags ==
    {tag \in {"nothing-to-rerun", "blocked", "triggered", "failed"} :
        \/ tag = "nothing-to-rerun" /\ Status = "Nothing to rerun."
        \/ tag = "blocked" /\ Status = "Rerun Blocked"
        \/ tag = "triggered" /\ Status = "Rerun Triggered"
        \/ tag = "failed" /\ "error" \in DOMAIN ret}

\* the state of the rerun: where the code is, and how it ended once it returned
RerunState ==
    IF pc # "Done" THEN pc
    ELSE IF "nothing-to-rerun" \in OutcomeTags THEN "NothingToRerun"
    ELSE IF "blocked" \in OutcomeTags THEN "Blocked"
    ELSE IF "triggered" \in OutcomeTags THEN "Triggered"
    ELSE IF "failed" \in OutcomeTags THEN "Failed"
    ELSE "Other"

RerunEnded == {"NothingToRerun", "Blocked", "Triggered", "Failed"}

\* the steps Diagnosing -> Validating -> {Blocked | Triggering} -> {Triggered | Failed}
RerunOrder ==
    { <<"Diagnosing", "Diagnosing">>, <<"Diagnosing", "NothingToRerun">>,
      <<"Diagnosing", "Validating">>,
      <<"Validating", "Validating">>, <<"Validating", "Blocked">>,
      <<"Validating", "Triggering">>,
      <<"Triggering", "Triggered">>, <<"Triggering", "Failed">> }

\* the answers trigger_dag_run gave within this operation
TriggerResults == [k \in 1..Len(CallsOf("trigger_dag_run")) |->
                      CallsOf("trigger_dag_run")[k].res]

TriggerRaised == \E k \in 1..Len(TriggerResults) : TriggerResults[k].raised

RerunOutcome ==
    (InRerun /\ pc = "Done") =>
        /\ Cardinality(OutcomeTags) = 1
        /\ RerunState \in RerunEnded
        /\ RerunState = "NothingToRerun" <=> Tasks = <<>>
        /\ RerunState = "Failed" <=> TriggerRaised
        /\ RerunState = "Failed" =>
              ret.error = <<"Failed to trigger rerun: ", Raised.message>>
        /\ RerunState = "Triggered" <=> (TriggerInvoked /\ ~TriggerRaised)

RerunStep ==
    /\ (~InRerun /\ InRerun') => RerunState' = "Diagnosing"
    /\ (InRerun /\ InRerun') => <<RerunState, RerunState'>> \in RerunOrder
    /\ (InRerun /\ ~InRerun') => RerunState \in RerunEnded

\* C12: when every collaborator call returns or raises, every rerun ends; it
\* goes through Diagnosing, Validating, then Blocked or Triggering, then
\* Triggered or Failed, and ends with exactly one of the four tags: nothing to
\* rerun exactly when the report holds no task, failed exactly when the
\* trigger raised, with the description of the error.
C12_RerunTerminates ==
    /\ []RerunOutcome
    /\ [][RerunStep]_vars
    /\ (InRerun /\ pc # "Done") ~> (InRerun /\ pc = "Done")

\* a rerun of two allowed tasks went through the loop to the trigger, which
\* raised, and ended failed with the error description
C12_Witness ==
    /\ InRerun /\ pc = "Done"
    /\ Len(Tasks) = 2 /\ Len(CallsOf("validate_rerun")) = 2
    /\ TriggerRaised
    /\ OutcomeTags = {"failed"}
    /\ ret.error = <<"Failed to trigger rerun: ", "Connection refused">>

-----------------------------------------------------------------------------
(* Claims about failures of the collaborators during diagnose *)

\* text begins with the lexemes of prefix / ends with those of suffix
StartsWith(text, prefix) ==
    Len(text) >= Len(prefix) /\ SubSeq(text, 1, Len(prefix)) = prefix

EndsWith(text, suffix) ==
    /\ Len(text) >= Len(suffix)
    /\ SubSeq(text, Len(text) - Len(suffix) + 1, Len(text)) = suffix

\* the request behind the log fetch / the output fetch of step i failed
LogFetchFailed(i) == calls[NthCall("get_task_log", i)].response.raised

OutputFetchFailed(i) ==
    LET p == NthCall("get_task_log", i)
    IN /\ NthCall("analyze", i) = p + 2
       /\ calls[p + 1].op = "get_run_output"
       /\ calls[p + 1].response.raised

\* C13: in diagnose a failed or timed-out log fetch or output fetch for one
\* step does not abort the diagnosis: the failure is an error marker in the
\* context the classifier gets for that step, the step and every sibling step
\* get their own classified entry, and the report is returned.
C13_FetchFailureIsolated ==
    ((InGenerateRca \/ InRerun) /\ NonEmptyFailedList) =>
        /\ pc = "Diagnosing" => (idx <= Len(failed_tasks) /\ Len(Tasks) = idx - 1)
        /\ pc # "Diagnosing" => Len(Tasks) = Len(failed_tasks)
        /\ (InGenerateRca /\ pc = "Done") => (ret = report /\ "error" \notin DOMAIN ret)
        /\ \A i \in 1..Len(Tasks) :
              LET context == calls[NthCall("analyze", i)].arg
              IN /\ NthCall("get_task_log", i) > 0
                 /\ NthCall("analyze", i) > NthCall("get_task_log", i)
                 /\ LogFetchFailed(i) =>
                       StartsWith(context, <<"Error fetching logs: ", Raised.message>>)
                 /\ OutputFetchFailed(i) =>
                       EndsWith(context, DatabricksSection \o <<Raised.message>>)
                 /\ Tasks[i].task_id = failed_tasks[i].task_id
                 /\ Tasks[i].root_cause_analysis = calls[NthCall("analyze", i)].res
                 /\ [root_cause |-> Tasks[i].root_cause_analysis.root_cause,
                     confidence |-> Tasks[i].root_cause_analysis.confidence]
                       \in ClassificationResults

\* diagnose returned two entries: the log fetch of the first step failed, the
\* output fetch of the second failed, and the second carries a signature in
\* its log that was classified
C13_Witness ==
    /\ InGenerateRca /\ pc = "Done" /\ NonEmptyFailedList
    /\ Len(failed_tasks) = 2 /\ Len(ret.tasks) = 2
    /\ LogFetchFailed(1) /\ ~LogFetchFailed(2) /\ OutputFetchFailed(2)
    /\ ret.tasks[1].root_cause_analysis.root_cause = "Unknown"
    /\ ret.tasks[2].root_cause_analysis.root_cause = "Timeout"
    /\ ret.tasks[2].databricks_run_id = 7

-----------------------------------------------------------------------------
(* Claims about the order of the gates *)

\* the three gates on the arguments evaluate was asked with
AllowlistGateFails == op.dag_id \notin allowlist_dags
AttemptGateFails == op.current_try_number > max_reruns
RootCauseGateFails == op.rca_root_cause \in ManualIntervention

\* C14: evaluate applies the gates in the order allowlist, attempt budget,
\* root cause; a denial carries the reason of the first gate that fails in
\* that order, whichever later gates would fail too, and allowed is true only
\* when the three gates pass.
C14_FirstFailingGateDecides ==
    EvaluateReturned =>
        /\ AllowlistGateFails =>
              ret = [allowed |-> FALSE,
                     reason |-> <<"DAG '", op.dag_id, "' is not in the allowlist.">>]
        /\ (~AllowlistGateFails /\ AttemptGateFails) =>
              ret = [allowed |-> FALSE,
                     reason |-> <<"Max reruns reached (",
                                  ToString(op.current_try_number), " > ",
                                  ToString(max_reruns), ").">>]
        /\ (~AllowlistGateFails /\ ~AttemptGateFails /\ RootCauseGateFails) =>
              ret = [allowed |-> FALSE,
                     reason |-> <<"Root cause '", op.rca_root_cause,
                                  "' requires manual intervention.">>]
        /\ ret.allowed <=>
              (~AllowlistGateFails /\ ~AttemptGateFails /\ ~RootCauseGateFails)
        /\ ret.allowed => ret.reason = <<"Safe to rerun.">>

\* the three gates fail for a pipeline missing from a non-empty allowlist, and
\* the reason returned is the allowlist's
C14_Witness ==
    /\ EvaluateReturned
    /\ allowlist_dags # {}
    /\ AllowlistGateFails /\ AttemptGateFails /\ RootCauseGateFails
    /\ ~ret.allowed
    /\ ret.reason = <<"DAG '", op.dag_id, "' is not in the allowlist.">>

-----------------------------------------------------------------------------
(* Claims about a failing get_failed_tasks *)

\* the call of get_failed_tasks of this operation raised
FailedTasksFetchRaised ==
    \E k \in 1..Len(calls) :
        calls[k].op = "get_failed_tasks" /\ calls[k].response.raised

\* the collaborator reported an empty list of failed steps
NoFailedSteps ==
    \E k \in 1..Len(calls) :
        /\ calls[k].op = "get_failed_tasks"
        /\ ~calls[k].response.raised
        /\ calls[k].response.failed = <<>>

\* C15: diagnose returns the 'no failures' result exactly when the
\* collaborator reports an empty list of failed steps; when the call of
\* get_failed_tasks itself fails, the result of diagnose differs from the 'no
\* failures' result and the outcome of rerun differs from 'nothing to rerun'.
C15_FetchFailureDistinguishable ==
    /\ (InGenerateRca /\ pc = "Done") =>
          (ret = [status |-> "No failed tasks found."] <=> NoFailedSteps)
    /\ (InRerun /\ pc = "Done" /\ FailedTasksFetchRaised) =>
          ret # [status |-> "Nothing to rerun."]

-----------------------------------------------------------------------------
(* Claims about the attempt number of a rerun *)

\* the rerun ended blocked with the reason of the attempt-budget gate
BlockedByAttemptBudget ==
    /\ InRerun /\ pc = "Done" /\ Status = "Rerun Blocked"
    /\ Head(ret.reason) = "Max reruns reached ("

\* C16: rerun asks the policy with the attempt number 1 whatever attempt
\* numbers the failed steps record: with a configured maximum of at least 1
\* no rerun is blocked by the attempt-budget gate, and with a maximum of 0
\* every rerun of an allowlisted pipeline with at least one failed task ends
\* blocked by that gate, at its first task.
C16_AttemptNumberFixedAtOne ==
    /\ max_reruns >= 1 => ~BlockedByAttemptBudget
    /\ (/\ InRerun /\ pc = "Done"
        /\ max_reruns = 0
        /\ op.dag_id \in allowlist_dags
        /\ Tasks # <<>>) =>
          /\ BlockedByAttemptBudget
          /\ ret.reason = <<"Max reruns reached (", "1", " > ", "0", ").">>
          /\ ret.task_id = Tasks[1].task_id
          /\ ~TriggerInvoked
    /\ BlockedByAttemptBudget =>
          (max_reruns = 0 /\ op.dag_id \in allowlist_dags)

\* a rerun whose failed steps all record an attempt number above the
\* configured maximum went through the policy and on to the trigger
C16_Witness ==
    /\ InRerun /\ pc = "Done"
    /\ max_reruns >= 1
    /\ NonEmptyFailedList
    /\ \A i \in 1..Len(failed_tasks) : failed_tasks[i].try_number > max_reruns
    /\ Len(CallsOf("validate_rerun")) = Len(failed_tasks)
    /\ TriggerInvoked
    /\ ~BlockedByAttemptBudget

-----------------------------------------------------------------------------
(* Claims about what diagnose and rerun leave alone *)

NoJobTriggered == \A k \in 1..Len(calls) : calls[k].op \notin JobTriggers

\* generate_rca is running, alone or as the first step of a rerun
Diagnosing == (InGenerateRca \/ InRerun) /\ pc = "Diagnosing"

\* diagnose calls neither trigger_dag_run nor run_now
DiagnoseTriggersNothing ==
    /\ InGenerateRca => NoJobTriggered
    /\ Diagnosing => NoJobTriggered

\* one rerun calls trigger_dag_run at most once, and never run_now
RerunTriggersAtMostOnce ==
    InRerun => /\ Len(CallsOf("trigger_dag_run")) <= 1
               /\ CallsOf("run_now") = <<>>

\* the classifier answered its latest context as the table of __init__ has it
ClassifiedByDeclaredTable ==
    (calls # <<>> /\ calls[Len(calls)].op = "analyze") =>
        calls[Len(calls)].res = analyze(calls[Len(calls)].arg)

\* a step of diagnose or rerun, their invocation and their return included,
\* leaves MAX_RERUNS and the allowlist as they were
ConfigurationKept ==
    (InGenerateRca \/ InRerun \/ InGenerateRca' \/ InRerun') =>
        (max_reruns' = max_reruns /\ allowlist_dags' = allowlist_dags)

====
